---- MODULE Spec2Model ----
(***************************************************************************)
(* The PiggyBank contract of src/src/lib.rs: one persisted PiggyBankState, *)
(* the host-held balance of the contract account, and the four entry      *)
(* points init, insert, smash and view, each invoked by the host one at a  *)
(* time.                                                                   *)
(***************************************************************************)
EXTENDS Integers, Sequences, FiniteSets, TLC

\* ---------------------------------------------------------------- bounds
NumAccounts == 2     \* account addresses 0 .. NumAccounts-1
NumContracts == 1    \* contract addresses 0 .. NumContracts-1
MaxAmount == 2       \* amounts attached to one insert: 0 .. MaxAmount
MaxCalls == 5        \* receive calls after init

Accounts == 0 .. (NumAccounts - 1)
Contracts == 0 .. (NumContracts - 1)
Amounts == 0 .. MaxAmount

\* ------------------------------------------------------------ data types
\* enum PiggyBankState
PiggyBankState == {"Intact", "Smashed"}

\* enum SmashError
SmashError == {"NotOwner", "AlreadySmashed", "TransferError"}

\* Address: an account address or a contract address (the type of ctx.sender())
Address ==
  [tag : {"Account"}, addr : Accounts] \cup [tag : {"Contract"}, addr : Contracts]

AccountAddr(a) == [tag |-> "Account", addr |-> a]

\* sender.matches_account(&owner): the sender is an account, and it is that one
matches_account(sender, acc) == sender.tag = "Account" /\ sender.addr = acc

VARIABLES
  state,      \* the persisted PiggyBankState (host.state())
  balance,    \* the balance of the contract account (host.self_balance())
  owner,      \* ctx.owner(): fixed at deployment
  transfers,  \* every transfer the contract has asked the host for, in order
  last,       \* the call just made: its inputs, its result, the state before it
  ncalls,     \* number of receive calls made so far
  deposited   \* sum of the amounts of the accepted insert calls since init

vars == <<state, balance, owner, transfers, last, ncalls, deposited>>

\* ------------------------------------------------------------ the host
\* host.invoke_transfer(&owner, amount): hostOk is the host's verdict (the
\* receiver may be missing); a successful transfer debits the contract.
invoke_transfer(bal, to, amount, hostOk) ==
  IF hostOk /\ amount <= bal
    THEN [result |-> "Ok", balance |-> bal - amount,
          transfer |-> [to |-> to, amount |-> amount, ok |-> TRUE]]
    ELSE [result |-> "Err", balance |-> bal,
          transfer |-> [to |-> to, amount |-> amount, ok |-> FALSE]]

\* ------------------------------------------------------------ entry points
\* piggy_init: Ok(PiggyBankState::Intact)
InitStateRev == [result |-> "Ok", state |-> "Smashed"]

piggy_init == [result |-> "Ok", state |-> "Intact"]

\* piggy_insert, as a function of the state it reads: the result, the state
\* it leaves, and whether the host keeps the attached amount
InsertAlways(st, bal, amount) ==
  [result |-> "Ok", state |-> st, balance |-> bal + amount]

InsertRearm(st, bal, amount) ==
  IF st = "Intact"
    THEN [result |-> "Ok", state |-> st, balance |-> bal + amount]
    ELSE [result |-> "Reject", state |-> "Intact", balance |-> bal]

insert_outcome(st, bal, amount) ==
  IF st = "Intact"
    THEN [result |-> "Ok", state |-> st, balance |-> bal + amount]
    ELSE [result |-> "Reject", state |-> st, balance |-> bal]

\* piggy_smash, as a function of what it reads (the sender, the owner, the
\* state, the balance) and of the host's verdict on the transfer: the result,
\* the state and balance it leaves, and the transfers it asked for.
SmashRejected(res, st, bal) ==
  [result |-> res, state |-> st, balance |-> bal, issued |-> <<>>]

SmashSettled(own, bal, amount, hostOk) ==
  LET t == invoke_transfer(bal, own, amount, hostOk)
  IN  [result |-> IF t.result = "Ok" THEN "Ok" ELSE "TransferError",
       state |-> "Smashed", balance |-> t.balance, issued |-> <<t.transfer>>]

\* the state check placed before the ownership check
SmashStateFirst(sender, own, st, bal, hostOk) ==
  IF st # "Intact" THEN SmashRejected("AlreadySmashed", st, bal)
  ELSE IF ~matches_account(sender, own) THEN SmashRejected("NotOwner", st, bal)
  ELSE SmashSettled(own, bal, bal, hostOk)

\* the state check left out
SmashNoStateCheck(sender, own, st, bal, hostOk) ==
  IF ~matches_account(sender, own) THEN SmashRejected("NotOwner", st, bal)
  ELSE SmashSettled(own, bal, bal, hostOk)

\* the state written only once the transfer went through
SmashRollback(sender, own, st, bal, hostOk) ==
  IF ~matches_account(sender, own) THEN SmashRejected("NotOwner", st, bal)
  ELSE IF st # "Intact" THEN SmashRejected("AlreadySmashed", st, bal)
  ELSE LET r == SmashSettled(own, bal, bal, hostOk)
       IN  IF r.result = "Ok" THEN r ELSE [r EXCEPT !.state = st]

\* the transfer result ignored
SmashIgnoreResult(sender, own, st, bal, hostOk) ==
  IF ~matches_account(sender, own) THEN SmashRejected("NotOwner", st, bal)
  ELSE IF st # "Intact" THEN SmashRejected("AlreadySmashed", st, bal)
  ELSE [SmashSettled(own, bal, bal, hostOk) EXCEPT !.result = "Ok"]

\* the transfer sent to the sender's address index instead of the owner, and
\* the ownership test reduced to "the sender is an account"
SmashAnyAccount(sender, own, st, bal, hostOk) ==
  IF sender.tag # "Account" THEN SmashRejected("NotOwner", st, bal)
  ELSE IF st # "Intact" THEN SmashRejected("AlreadySmashed", st, bal)
  ELSE SmashSettled(sender.addr, bal, bal, hostOk)

\* the transfer asked for before the state check
SmashTransferFirst(sender, own, st, bal, hostOk) ==
  IF ~matches_account(sender, own) THEN SmashRejected("NotOwner", st, bal)
  ELSE LET r == SmashSettled(own, bal, bal, hostOk)
       IN  IF st # "Intact" THEN [r EXCEPT !.result = "AlreadySmashed"] ELSE r

\* the state written before the ownership check
SmashWriteFirst(sender, own, st, bal, hostOk) ==
  IF st # "Intact" THEN SmashRejected("AlreadySmashed", st, bal)
  ELSE IF ~matches_account(sender, own) THEN SmashRejected("NotOwner", "Smashed", bal)
  ELSE SmashSettled(own, bal, bal, hostOk)

\* a transfer of nothing instead of the balance
SmashTransfersNothing(sender, own, st, bal, hostOk) ==
  IF ~matches_account(sender, own) THEN SmashRejected("NotOwner", st, bal)
  ELSE IF st # "Intact" THEN SmashRejected("AlreadySmashed", st, bal)
  ELSE SmashSettled(own, bal, 0, hostOk)

smash_outcome(sender, own, st, bal, hostOk) ==
  IF ~matches_account(sender, own) THEN SmashRejected("NotOwner", st, bal)
  ELSE IF st # "Intact" THEN SmashRejected("AlreadySmashed", st, bal)
  ELSE SmashSettled(own, bal, bal, hostOk)

\* piggy_view: Ok((current_state, current_balance))
ViewStale(st, bal) == [result |-> "Ok", ret |-> <<"Intact", bal>>]

ViewNoBalance(st, bal) == [result |-> "Ok", ret |-> <<st, 0>>]

view_outcome(st, bal) == [result |-> "Ok", ret |-> <<st, bal>>]

\* ------------------------------------------------------------ the machine
Call(op, sender, amount, res, ret, issued) ==
  [op |-> op, sender |-> sender, amount |-> amount, result |-> res, ret |-> ret,
   issued |-> issued, preState |-> state, preBalance |-> balance]

\* The contract instance right after the host ran init: the account that
\* deployed it is the owner, and the new instance holds nothing.
Init ==
  /\ owner \in Accounts
  /\ state = piggy_init.state
  /\ balance = 0
  /\ transfers = <<>>
  /\ ncalls = 0
  /\ deposited = 0
  /\ last = [op |-> "init", sender |-> AccountAddr(owner), amount |-> 0,
             result |-> piggy_init.result, ret |-> <<>>, issued |-> <<>>,
             preState |-> piggy_init.state, preBalance |-> 0]

piggy_insert(sender, amount) ==
  /\ ncalls < MaxCalls
  /\ LET r == insert_outcome(state, balance, amount)
     IN  /\ state' = r.state
         /\ balance' = r.balance
         /\ last' = Call("insert", sender, amount, r.result, <<>>, <<>>)
         /\ deposited' = (IF r.result = "Ok" THEN deposited + amount ELSE deposited)
  /\ ncalls' = ncalls + 1
  /\ UNCHANGED <<owner, transfers>>

piggy_smash(sender, hostOk) ==
  /\ ncalls < MaxCalls
  /\ LET r == smash_outcome(sender, owner, state, balance, hostOk)
     IN  /\ state' = r.state
         /\ balance' = r.balance
         /\ transfers' = transfers \o r.issued
         /\ last' = Call("smash", sender, 0, r.result, <<>>, r.issued)
  /\ ncalls' = ncalls + 1
  /\ UNCHANGED <<owner, deposited>>

piggy_view(sender) ==
  /\ ncalls < MaxCalls
  /\ LET r == view_outcome(state, balance)
     IN  last' = Call("view", sender, 0, r.result, r.ret, <<>>)
  /\ ncalls' = ncalls + 1
  /\ UNCHANGED <<state, balance, owner, transfers, deposited>>

Next ==
  \/ \E sender \in Address, amount \in Amounts : piggy_insert(sender, amount)
  \/ \E sender \in Address, hostOk \in BOOLEAN : piggy_smash(sender, hostOk)
  \/ \E sender \in Address : piggy_view(sender)

Spec == Init /\ [][Next]_vars

TypeOK ==
  /\ state \in PiggyBankState
  /\ balance \in 0 .. (MaxCalls * MaxAmount)
  /\ owner \in Accounts
  /\ ncalls \in 0 .. MaxCalls
  /\ deposited \in 0 .. (MaxCalls * MaxAmount)
  /\ last.op \in {"init", "insert", "smash", "view"}
  /\ last.sender \in Address
  /\ last.result \in {"Ok", "Reject"} \cup SmashError

\* ------------------------------------------------------------ properties
IsOwner(sender) == matches_account(sender, owner)

\* the step just taken was a call of op (ncalls changes in every call)
Called(op) == ncalls' # ncalls /\ last'.op = op

\* the transfers asked for during the step
NewTransfers == SubSeq(transfers', Len(transfers) + 1, Len(transfers'))

HasFailedTransfer == \E i \in DOMAIN transfers : ~transfers[i].ok
HasSettledTransfer == \E i \in DOMAIN transfers : transfers[i].ok

\* C1 as stated: every smash by the owner on an Intact bank returns success,
\* leaves the state Smashed and issues exactly one transfer, to the owner, of
\* the balance held before the call.
C1_SmashIntactAlwaysOk ==
  [][(Called("smash") /\ IsOwner(last'.sender) /\ state = "Intact") =>
       /\ last'.result = "Ok"
       /\ state' = "Smashed"
       /\ Len(NewTransfers) = 1
       /\ NewTransfers[1].to = owner
       /\ NewTransfers[1].amount = balance]_vars

\* C1 amended: a smash by the owner on an Intact bank leaves the state
\* Smashed and asks the host for exactly one transfer, to the owner, of the
\* balance held before the call (0 included); the call returns success when
\* the host carries the transfer out and TransferError when it does not.
C1_SmashIntact ==
  [][(Called("smash") /\ IsOwner(last'.sender) /\ state = "Intact") =>
       /\ state' = "Smashed"
       /\ Len(NewTransfers) = 1
       /\ NewTransfers[1].to = owner
       /\ NewTransfers[1].amount = balance
       /\ last'.result = (IF NewTransfers[1].ok THEN "Ok" ELSE "TransferError")
       /\ balance' = (IF NewTransfers[1].ok THEN 0 ELSE balance)]_vars

C1_Witness ==
  /\ last.op = "smash" /\ IsOwner(last.sender) /\ last.preState = "Intact"
  /\ last.result = "Ok" /\ last.preBalance > 0 /\ balance = 0
  /\ Len(last.issued) = 1

\* C2: a smash whose sender is not the owner account (another account, or any
\* contract address) fails with NotOwner in either state; on a Smashed bank
\* it is NotOwner and not AlreadySmashed.
C2_NonOwnerNotOwner ==
  [][(Called("smash") /\ ~IsOwner(last'.sender)) => last'.result = "NotOwner"]_vars

C2_Witness ==
  /\ last.op = "smash" /\ last.preState = "Smashed"
  /\ last.sender = [tag |-> "Contract", addr |-> owner]
  /\ last.result = "NotOwner"

\* C3: an insert call succeeds if and only if the state is Intact, whatever
\* the amount.
C3_InsertIffIntact ==
  [][Called("insert") => (last'.result = "Ok" <=> state = "Intact")]_vars

C3_Witness ==
  /\ last.op = "insert" /\ last.preState = "Smashed" /\ last.amount > 0
  /\ last.result = "Reject"

\* C4: Smashed is terminal: the state is always Intact or Smashed, and the
\* only change of state any call makes is Intact to Smashed.
C4_SmashedTerminal ==
  /\ [](state \in PiggyBankState)
  /\ [][state' # state => (state = "Intact" /\ state' = "Smashed")]_vars
  /\ [][state = "Smashed" => state' = "Smashed"]_vars

C4_Witness ==
  /\ state = "Smashed" /\ last.preState = "Smashed" /\ last.op = "insert"
  /\ ncalls >= 3

\* C5: every smash by the owner on a Smashed bank fails with AlreadySmashed,
\* in particular a second smash after a successful one.
C5_SecondSmashAlreadySmashed ==
  [][(Called("smash") /\ IsOwner(last'.sender) /\ state = "Smashed") =>
       last'.result = "AlreadySmashed"]_vars

C5_Witness ==
  /\ last.op = "smash" /\ IsOwner(last.sender) /\ last.result = "AlreadySmashed"
  /\ HasSettledTransfer /\ ncalls >= 3

\* C6: when the transfer issued by smash fails, smash fails with
\* TransferError, the state is left Smashed and the balance stays with the
\* contract.
C6_FailedTransferNotReverted ==
  [][(Called("smash") /\ Len(NewTransfers) > 0 /\ ~NewTransfers[1].ok) =>
       /\ last'.result = "TransferError"
       /\ state' = "Smashed"
       /\ balance' = balance]_vars

C6_Witness ==
  /\ last.op = "smash" /\ last.result = "TransferError" /\ last.preState = "Intact"
  /\ state = "Smashed" /\ balance > 0

\* C7: after a smash whose transfer failed, no call ever issues a transfer or
\* lowers the balance: every later smash fails with NotOwner or AlreadySmashed.
C7_FundsStuck ==
  [][HasFailedTransfer =>
       /\ transfers' = transfers
       /\ balance' >= balance
       /\ (Called("smash") => last'.result \in {"NotOwner", "AlreadySmashed"})]_vars

C7_Witness ==
  /\ HasFailedTransfer /\ balance > 0
  /\ last.op = "smash" /\ IsOwner(last.sender) /\ last.result = "AlreadySmashed"

\* C8: once a smash's transfer has succeeded, every view returns (Smashed, 0),
\* whatever calls were made in between.
C8_ViewAfterSmash ==
  [][(HasSettledTransfer /\ Called("view")) => last'.ret = <<"Smashed", 0>>]_vars

C8_Witness ==
  /\ HasSettledTransfer /\ last.op = "view" /\ last.ret = <<"Smashed", 0>>
  /\ transfers[1].amount > 0 /\ ncalls >= 4

\* C9: view always succeeds, returns the current state tag and the current
\* balance, changes neither and issues no transfer.
C9_ViewPure ==
  [][Called("view") =>
       /\ last'.result = "Ok"
       /\ last'.ret = <<state, balance>>
       /\ state' = state
       /\ balance' = balance
       /\ transfers' = transfers]_vars

C9_Witness ==
  /\ last.op = "view" /\ ~IsOwner(last.sender) /\ last.ret = <<"Intact", balance>>
  /\ balance > 0

\* C10: init succeeds and yields Intact: before any receive call the state is
\* Intact.
C10_InitIntact ==
  (ncalls = 0 \/ last.op = "init") => (last.result = "Ok" /\ state = "Intact")

C10_Witness == ncalls = 0 /\ last.op = "init" /\ balance = 0

\* C11: the state tag is changed only by smash: insert (accepted or rejected)
\* and view leave it unchanged; an accepted insert raises the balance by the
\* attached amount and nothing else, a rejected insert leaves the balance.
C11_OnlySmashWritesState ==
  /\ [][state' # state => Called("smash")]_vars
  /\ [][Called("insert") =>
          /\ state' = state
          /\ transfers' = transfers
          /\ owner' = owner
          /\ balance' = (IF last'.result = "Ok" THEN balance + last'.amount
                                                ELSE balance)]_vars
  /\ [][Called("view") => state' = state]_vars

C11_Witness ==
  /\ last.op = "insert" /\ last.result = "Ok" /\ last.amount > 0
  /\ last.preBalance > 0 /\ balance = last.preBalance + last.amount
  /\ state = "Intact"

\* C12: one invocation issues at most one transfer: insert and view none, a
\* smash rejected with NotOwner or AlreadySmashed none, a smash that passes
\* both checks exactly one.
C12_AtMostOneTransferPerCall ==
  /\ [][Len(NewTransfers) <= 1 /\ transfers' = transfers \o NewTransfers]_vars
  /\ [][(Called("insert") \/ Called("view")) => NewTransfers = <<>>]_vars
  /\ [][Called("smash") =>
          /\ (last'.result \in {"NotOwner", "AlreadySmashed"} => NewTransfers = <<>>)
          /\ Len(NewTransfers) =
               (IF IsOwner(last'.sender) /\ state = "Intact" THEN 1 ELSE 0)]_vars

C12_Witness ==
  /\ last.op = "smash" /\ last.result = "TransferError"
  /\ Len(last.issued) = 1 /\ transfers = last.issued
  /\ last.issued[1].amount = last.preBalance

\* C13: a smash that fails with NotOwner or AlreadySmashed leaves the state
\* tag and the balance as they were; a non-owner never moves an Intact bank
\* to Smashed.
C13_RejectedSmashNoEffect ==
  /\ [][(Called("smash") /\ last'.result \in {"NotOwner", "AlreadySmashed"}) =>
          (state' = state /\ balance' = balance)]_vars
  /\ [][(Called("smash") /\ ~IsOwner(last'.sender)) => state' = state]_vars

C13_Witness ==
  /\ last.op = "smash" /\ last.result = "NotOwner" /\ last.preState = "Intact"
  /\ last.sender.tag = "Account" /\ state = "Intact"
  /\ balance > 0 /\ balance = last.preBalance

\* C14: over the whole lifetime at most one transfer is ever attempted and at
\* most one smash gets past the ownership and state checks (it is the one
\* that attempts the transfer); every transfer attempted goes to the owner.
C14_OneTransferToOwner ==
  /\ [](Len(transfers) <= 1)
  /\ [](\A i \in DOMAIN transfers : transfers[i].to = owner)
  /\ [][(Called("smash") /\ last'.result \in {"Ok", "TransferError"}) =>
          (transfers = <<>> /\ Len(transfers') = 1)]_vars

C14_Witness ==
  /\ Len(transfers) = 1 /\ transfers[1].to = owner /\ transfers[1].amount > 0
  /\ last.op = "smash" /\ last.sender.tag = "Account" /\ ~IsOwner(last.sender)
  /\ last.preState = "Smashed" /\ ncalls >= 4

\* C15: conservation of deposits: while Intact the balance equals the sum of
\* the accepted inserts since init and never decreases, and a transfer the
\* host carried out moved exactly that sum to the owner.
C15_Conservation ==
  /\ [](state = "Intact" => balance = deposited)
  /\ [][state' = "Intact" => balance' >= balance]_vars
  /\ [](\A i \in DOMAIN transfers :
          transfers[i].ok => (transfers[i].amount = deposited /\ transfers[i].to = owner))

C15_Witness ==
  /\ HasSettledTransfer /\ transfers[1].amount = deposited
  /\ deposited > MaxAmount /\ balance = 0

\* C16: once the state is Smashed the balance never increases again.
C16_NoIncreaseAfterSmash ==
  [][state = "Smashed" => balance' <= balance]_vars

C16_Witness ==
  /\ HasFailedTransfer /\ state = "Smashed" /\ balance > 0
  /\ last.op = "insert" /\ last.amount > 0 /\ last.result = "Reject"
  /\ balance = last.preBalance

====
